---------------------------- MODULE Spec2Model ----------------------------
(***************************************************************************)
(* A model of csview.h: the buffered line reader, the field tokenizer,     *)
(* csv_read, csv_write and csv_free, with the heap blocks they allocate    *)
(* and release and the platform file handles they open and close.          *)
(*                                                                         *)
(* Bytes are one-character strings; the NUL byte is the string "NUL".      *)
(* A pointer is a block number (the number of the allocation call that     *)
(* returned it), NULL is 0 and WILD is the value of an uninitialized       *)
(* pointer slot.                                                           *)
(***************************************************************************)
EXTENDS Integers, Sequences, FiniteSets, TLC

VARIABLES
    pc,          \* where the calling program is
    disk,        \* the files: path -> [exists, bytes]
    has_header,  \* the has_header argument the caller passes to csv_read
    doc,         \* the caller's handle (csv_document_t* doc)
    doc2,        \* a second handle, for the document read back from the written file
    mem,         \* contents of every csv_document_t block ever allocated
    live,        \* heap blocks allocated and not released
    freed,       \* every pointer handed to free() by csv_free, in order
    nalloc,      \* allocation calls made so far (the last block number used)
    last,        \* what the last library call did (its return value, its I/O)
    nfree,       \* csv_free calls made so far
    tok_line,    \* tokenizer harness: the line handed to _parse_csv_line
    tok_row,     \* tokenizer harness: the row it returned
    rd,          \* a csv_read in progress: its locals (reader, doc, row_capacity)
    line_log     \* what every _read_line call so far returned: [line, ret], in order

vars == <<pc, disk, has_header, doc, doc2, mem, live, freed, nalloc, last,
          nfree, tok_line, tok_row, rd, line_log>>

---------------------------------------------------------------------------
(* Bounds of the model. *)

\* longest input file, in bytes
MaxLen == 4
\* longest line handed to the tokenizer harness, in bytes
MaxLineLen == 4
\* most csv_free calls the caller makes
MaxFrees == 2
\* allocation calls 1..MaxFailAt of a csv_read are the ones that may fail
MaxFailAt == 6
\* write calls 1..MaxWriteFailAt of a csv_write are the ones that may fail
MaxWriteFailAt == 3
\* longest input file of the line reader harness, in bytes
MaxFileLen == 5

(* Program constants, scaled down so that buffer refills, line truncation   *)
(* and container growth happen on inputs of a few bytes.                    *)

\* size of the reader's buffer and of csv_read's line buffer (4096 in the source)
_CSV_INTERNAL_BUFFER_SIZE == 4
\* slots of a new row container (10 in the source)
_CSV_INITIAL_ROW_CAPACITY == 1
\* slots of a new field container (10 in the source)
_CSV_INITIAL_FIELD_CAPACITY == 1

NULL == 0
WILD == -1

NUL == "NUL"
LF == "\n"
CR == "\r"
Comma == ","
Quote == "\""
Space == " "
Tab == "\t"

---------------------------------------------------------------------------
(* Sequences of bytes. *)

RECURSIVE SeqsOfLen(_, _)
SeqsOfLen(S, n) ==
    IF n = 0 THEN {<<>>}
    ELSE {Append(s, c) : s \in SeqsOfLen(S, n - 1), c \in S}

SeqsUpTo(S, n) == UNION {SeqsOfLen(S, k) : k \in 0..n}

Min(a, b) == IF a < b THEN a ELSE b

\* strlen: the bytes before the first NUL
strlen(s) ==
    IF \E i \in 1..Len(s) : s[i] = NUL
    THEN (CHOOSE i \in 1..Len(s) : s[i] = NUL /\ \A j \in 1..(i - 1) : s[j] # NUL) - 1
    ELSE Len(s)

\* the C string held in a byte array
CStr(s) == SubSeq(s, 1, strlen(s))

\* strchr(s + from - 1, c) as an index into s; Len(s) + 1 stands for "not found",
\* which is where the code then puts end (start + strlen(start))
strchr_or_end(s, from, c) ==
    IF \E i \in from..Len(s) : s[i] = c
    THEN CHOOSE i \in from..Len(s) : s[i] = c /\ \A j \in from..(i - 1) : s[j] # c
    ELSE Len(s) + 1

\* a plausible slip: blanks after a delimiter are not skipped
skip_blanks_not(s, p) == p

RECURSIVE skip_blanks(_, _)
skip_blanks(s, p) ==
    IF p <= Len(s) /\ (s[p] = Space \/ s[p] = Tab) THEN skip_blanks(s, p + 1) ELSE p

---------------------------------------------------------------------------
(* The allocator.  al = [calls, live, fail]: allocation calls made so far, *)
(* the live blocks, and the calls that fail.                               *)

alloc_fails(al) == (al.calls + 1) \in al.fail

\* the pointer malloc/calloc returns
malloc_ptr(al) == IF alloc_fails(al) THEN NULL ELSE al.calls + 1

\* the allocator after malloc/calloc
malloc_al(al) ==
    [al EXCEPT !.calls = al.calls + 1,
               !.live = IF alloc_fails(al) THEN al.live ELSE al.live \cup {al.calls + 1}]

\* the allocator after realloc(old, ...): a failed realloc leaves old allocated
realloc_al(al, old) ==
    [al EXCEPT !.calls = al.calls + 1,
               !.live = IF alloc_fails(al) THEN al.live
                        ELSE (al.live \ {old}) \cup {al.calls + 1}]

\* the allocator after free(p) of a live block
free_al(al, p) == [al EXCEPT !.live = al.live \ {p}]

---------------------------------------------------------------------------
(* _parse_csv_line *)

NullRow == [id |-> NULL, fields |-> NULL, items |-> <<>>, num_fields |-> 0]

\* start of the field body for a field that begins at ptr
field_start(line, ptr) == IF line[ptr] = Quote THEN ptr + 1 ELSE ptr

\* a plausible slip: the closing quote is never looked for
field_end_comma_only(line, ptr) == strchr_or_end(line, field_start(line, ptr), Comma)

\* end of the field body (one past its last byte) for a field that begins at ptr
field_end(line, ptr) ==
    IF line[ptr] = Quote THEN strchr_or_end(line, field_start(line, ptr), Quote)
    ELSE strchr_or_end(line, field_start(line, ptr), Comma)

\* one iteration of while (*ptr): st = [ptr, cap, row, al, crashed]
parse_field(line, st) ==
    LET in_quotes == line[st.ptr] = Quote
        start == field_start(line, st.ptr)
        end == field_end(line, st.ptr)
        text == SubSeq(line, start, end - 1)
        field == malloc_ptr(st.al)
        al1 == malloc_al(st.al)
        grow == st.row.num_fields >= st.cap
        cap1 == IF grow THEN st.cap * 2 ELSE st.cap
        fields1 == IF grow THEN malloc_ptr(al1) ELSE st.row.fields
        al2 == IF grow THEN realloc_al(al1, st.row.fields) ELSE al1
        p1 == IF in_quotes /\ end <= Len(line) /\ line[end] = Quote THEN end + 1 ELSE end
        p2 == IF p1 <= Len(line) /\ line[p1] = Comma THEN p1 + 1 ELSE p1
    IN  IF field = NULL
        THEN \* field[len] = '\0' writes through NULL
             [st EXCEPT !.al = al1, !.crashed = TRUE]
        ELSE IF fields1 = NULL
        THEN \* row->fields[row->num_fields++] = field writes through NULL
             [st EXCEPT !.al = al2, !.crashed = TRUE,
                        !.row = [st.row EXCEPT !.fields = NULL]]
        ELSE [ptr |-> skip_blanks(line, p2),
              cap |-> cap1,
              row |-> [st.row EXCEPT
                          !.fields = fields1,
                          !.items = Append(st.row.items, [id |-> field, text |-> text]),
                          !.num_fields = st.row.num_fields + 1],
              al |-> al2,
              crashed |-> FALSE]

RECURSIVE parse_loop(_, _)
parse_loop(line, st) ==
    IF st.crashed \/ st.ptr > Len(line) THEN st
    ELSE parse_loop(line, parse_field(line, st))

\* what _parse_csv_line hands back once its loop has ended in st
parse_result(st) == [row |-> st.row, al |-> st.al, crashed |-> st.crashed]

\* _parse_csv_line(line) with allocator al: [row, al, crashed]; row.id = NULL is
\* the NULL return
_parse_csv_line(line, al) ==
    IF malloc_ptr(al) = NULL
    THEN [row |-> NullRow, al |-> malloc_al(al), crashed |-> FALSE]
    ELSE parse_result(parse_loop(line,
                         [ptr |-> 1,
                          cap |-> _CSV_INITIAL_FIELD_CAPACITY,
                          row |-> [id |-> malloc_ptr(al),
                                   fields |-> malloc_ptr(malloc_al(al)),
                                   items |-> <<>>, num_fields |-> 0],
                          al |-> malloc_al(malloc_al(al)),
                          crashed |-> FALSE]))

\* the field texts of a row
Texts(items) == [i \in 1..Len(items) |-> items[i].text]

---------------------------------------------------------------------------
(* The platform file layer.  A handle's bookkeeping is h = [opened, closed]: *)
(* successful opens and close calls made by one library call.  A byte      *)
(* source is the sequence of outcomes its reads will have: [n, data] with  *)
(* n > 0 bytes of data, or n = -1 for a failed read; once the sequence is  *)
(* used up every read returns 0.                                           *)

\* a plausible slip: the handle is never closed
_platform_file_close_not(h) == h

_platform_file_close(h) == [h EXCEPT !.closed = h.closed + 1]

ReadFails == [n |-> -1, data |-> <<>>]

\* what the next _platform_file_read returns
_platform_file_read(src) ==
    IF src = <<>> THEN [n |-> 0, data |-> <<>>] ELSE Head(src)

\* the bytes cut into reads of n bytes each (the last may be shorter)
RECURSIVE ChunksOf(_, _)
ChunksOf(bytes, n) ==
    IF bytes = <<>> THEN <<>>
    ELSE LET k == Min(n, Len(bytes))
         IN  <<[n |-> k, data |-> SubSeq(bytes, 1, k)]>>
                 \o ChunksOf(SubSeq(bytes, k + 1, Len(bytes)), n)

\* q with x put in before position k
InsertAt(q, k, x) == SubSeq(q, 1, k - 1) \o <<x>> \o SubSeq(q, k, Len(q))

---------------------------------------------------------------------------
(* _read_line.  reader = [src, buffer, bytes_in_buffer, current_pos, nerr]; *)
(* nerr counts the reads that failed (bookkeeping, not in the struct).      *)

NewReader(src) ==
    [src |-> src, buffer |-> <<>>, bytes_in_buffer |-> 0, current_pos |-> 0, nerr |-> 0]

\* the reader after the refill at the top of the loop
refill(reader) ==
    LET got == _platform_file_read(reader.src)
    IN  [src |-> IF reader.src = <<>> THEN <<>> ELSE Tail(reader.src),
         buffer |-> IF got.n > 0 THEN got.data ELSE reader.buffer,
         bytes_in_buffer |-> got.n,
         current_pos |-> 0,
         nerr |-> reader.nerr + (IF got.n < 0 THEN 1 ELSE 0)]

\* the while loop: out is line_out[0 .. line_pos-1]
RECURSIVE read_line_loop(_, _, _)
read_line_loop(reader, out, max_len) ==
    IF ~(Len(out) < max_len - 1) THEN [reader |-> reader, out |-> out]
    ELSE LET need == reader.current_pos >= reader.bytes_in_buffer
             r1 == IF need THEN refill(reader) ELSE reader
         IN  IF need /\ r1.bytes_in_buffer <= 0 THEN [reader |-> r1, out |-> out]
             ELSE LET c == r1.buffer[r1.current_pos + 1]
                      r2 == [r1 EXCEPT !.current_pos = r1.current_pos + 1]
                  IN  IF c = LF THEN [reader |-> r2, out |-> out]
                      ELSE read_line_loop(r2, IF c # CR THEN Append(out, c) ELSE out,
                                          max_len)

\* [reader, line, ret]: line is what line_out holds before its terminator
_read_line(reader, max_len) ==
    LET r == read_line_loop(reader, <<>>, max_len)
    IN  [reader |-> r.reader,
         line |-> r.out,
         ret |-> IF r.reader.bytes_in_buffer <= 0 /\ Len(r.out) = 0
                 THEN r.reader.bytes_in_buffer ELSE Len(r.out)]

---------------------------------------------------------------------------
(* csv_read.  A document is                                                *)
(*   [id, rows, row_items, num_rows, header, header_items, num_cols]       *)
(* where rows and header are the pointers to the two containers and        *)
(* row_items, header_items are the slots of them that have been assigned.  *)

NewDoc(id, rows) ==
    [id |-> id, rows |-> rows, row_items |-> <<>>, num_rows |-> 0,
     header |-> NULL, header_items |-> <<>>, num_cols |-> 0]

NoDoc == NewDoc(NULL, NULL)

\* the header row pr has been parsed from the line read by rl:
\* doc->header = header_row->fields; ...; free(header_row);
store_header(st, rl, pr) ==
    IF pr.crashed \/ pr.row.id = NULL
    THEN \* header_row->fields reads through NULL
         [st EXCEPT !.reader = rl.reader, !.al = pr.al, !.crashed = TRUE]
    ELSE [st EXCEPT
             !.reader = rl.reader,
             !.al = free_al(pr.al, pr.row.id),
             !.doc = [st.doc EXCEPT
                         !.header = pr.row.fields,
                         !.header_items = pr.row.items,
                         !.num_cols = pr.row.num_fields]]

\* if (has_header && _read_line(...) > 0) { ... } where rl is that _read_line
header_line(st, rl) ==
    IF ~(rl.ret > 0) THEN [st EXCEPT !.reader = rl.reader]
    ELSE store_header(st, rl, _parse_csv_line(CStr(rl.line), st.al))

\* "Read header": st = [reader, al, doc, row_capacity, crashed]
read_header(st, hh) ==
    IF ~hh THEN st ELSE header_line(st, _read_line(st.reader, _CSV_INTERNAL_BUFFER_SIZE))

\* doc->rows[doc->num_rows++] = current_row and what follows it, where pr is
\* the parse of the line and rows1, cap1 the container after the growth check
store_row(st, rows1, cap1, pr) ==
    IF pr.crashed \/ rows1 = NULL
    THEN \* doc->rows[doc->num_rows++] = current_row writes through NULL
         [st EXCEPT !.al = pr.al, !.crashed = TRUE,
                    !.doc = [st.doc EXCEPT !.rows = rows1]]
    ELSE IF st.doc.num_cols = 0 /\ pr.row.id = NULL
    THEN \* current_row->num_fields reads through NULL
         [st EXCEPT !.al = pr.al, !.crashed = TRUE]
    ELSE [st EXCEPT
             !.al = pr.al,
             !.row_capacity = cap1,
             !.doc = [st.doc EXCEPT
                         !.rows = rows1,
                         !.row_items = Append(st.doc.row_items, pr.row),
                         !.num_rows = st.doc.num_rows + 1,
                         !.num_cols = IF st.doc.num_cols = 0 THEN pr.row.num_fields
                                      ELSE st.doc.num_cols]]

\* one line of "Read data rows" that is not skipped
read_row(st, line) ==
    IF st.doc.num_rows >= st.row_capacity
    THEN store_row(st, malloc_ptr(st.al), st.row_capacity * 2,
                   _parse_csv_line(line, realloc_al(st.al, st.doc.rows)))
    ELSE store_row(st, st.doc.rows, st.row_capacity, _parse_csv_line(line, st.al))

\* a plausible slip: an empty line is stored as a row without fields
skip_line_never(line) == FALSE

\* if (strlen(line) == 0) continue;
skip_line(line) == strlen(line) = 0

\* "Read data rows": read_rows is the loop, data_line its body for the line rl
RECURSIVE read_rows(_), data_line(_, _)
data_line(st, rl) ==
    IF ~(rl.ret > 0) THEN [st EXCEPT !.reader = rl.reader]
    ELSE IF skip_line(rl.line) THEN read_rows([st EXCEPT !.reader = rl.reader])
    ELSE read_rows(read_row([st EXCEPT !.reader = rl.reader], CStr(rl.line)))

read_rows(st) ==
    IF st.crashed THEN st ELSE data_line(st, _read_line(st.reader, _CSV_INTERNAL_BUFFER_SIZE))

NoRead == [ret |-> NULL, doc |-> NoDoc, al |-> [calls |-> 0, live |-> {}, fail |-> {}],
           h |-> [opened |-> 0, closed |-> 0],
           crashed |-> FALSE, open_failed |-> FALSE, read_failed |-> FALSE]

\* the end of csv_read, st being the state its two loops ended in
read_result(st) ==
    IF st.crashed
    THEN [NoRead EXCEPT !.al = st.al, !.h = [opened |-> 1, closed |-> 0],
                        !.crashed = TRUE, !.doc = st.doc,
                        !.read_failed = st.reader.nerr > 0]
    ELSE [NoRead EXCEPT !.ret = st.doc.id, !.doc = st.doc, !.al = st.al,
                        !.h = _platform_file_close([opened |-> 1, closed |-> 0]),
                        !.read_failed = st.reader.nerr > 0]

\* csv_read(file_path, has_header) where the path holds file, the reads of it
\* have the outcomes src and the allocator is al:
\* [ret, doc, al, h, crashed, open_failed, read_failed]
csv_read(file, hh, src, al) ==
    IF ~file.exists THEN [NoRead EXCEPT !.al = al, !.open_failed = TRUE]
    ELSE IF malloc_ptr(al) = NULL
    THEN [NoRead EXCEPT !.al = malloc_al(al),
                        !.h = _platform_file_close([opened |-> 1, closed |-> 0])]
    ELSE read_result(
             read_rows(read_header([reader |-> NewReader(src),
                                    al |-> malloc_al(malloc_al(al)),
                                    doc |-> NewDoc(malloc_ptr(al), malloc_ptr(malloc_al(al))),
                                    row_capacity |-> _CSV_INITIAL_ROW_CAPACITY,
                                    crashed |-> FALSE], hh)))

---------------------------------------------------------------------------
(* csv_write.  The calls of _platform_file_write it makes, in order, each  *)
(* [bytes, fault]: fault marks a call whose buffer argument cannot be read *)
(* (an unassigned header slot, or a field of a NULL row).                  *)

WriteOf(bytes) == [bytes |-> bytes, fault |-> FALSE]
Fault == [bytes |-> <<>>, fault |-> TRUE]

\* the write of field i of a record (its text, then a comma unless it is the
\* last of the n fields) and of the fields after it
RECURSIVE field_calls(_, _, _)
field_calls(n, texts, i) ==
    IF i > n THEN <<>>
    ELSE <<IF i <= Len(texts) THEN WriteOf(texts[i]) ELSE Fault>>
             \o (IF i < n THEN <<WriteOf(<<Comma>>)>> ELSE <<>>)
             \o field_calls(n, texts, i + 1)

\* a plausible slip: the line terminator is not written
record_calls_no_newline(n, texts) == field_calls(n, texts, 1)

\* the writes for one record of n fields: the fields, then the newline
record_calls(n, texts) == field_calls(n, texts, 1) \o <<WriteOf(<<LF>>)>>

\* "Write header"
header_calls(d) ==
    IF d.header # NULL THEN record_calls(d.num_cols, Texts(d.header_items)) ELSE <<>>

\* "Write rows", from row i on
RECURSIVE rows_calls(_, _)
rows_calls(d, i) ==
    IF i > d.num_rows THEN <<>>
    ELSE (IF d.row_items[i].id = NULL THEN <<Fault>>
          ELSE record_calls(d.row_items[i].num_fields, Texts(d.row_items[i].items)))
             \o rows_calls(d, i + 1)

\* index of the first faulting call, or 0
FirstFault(calls) ==
    IF \E i \in 1..Len(calls) : calls[i].fault
    THEN CHOOSE i \in 1..Len(calls) :
             calls[i].fault /\ \A j \in 1..(i - 1) : ~calls[j].fault
    ELSE 0

\* the bytes of the calls that succeed; a failed write leaves nothing in the file
RECURSIVE Written(_, _, _)
Written(calls, i, wfail) ==
    IF i > Len(calls) THEN <<>>
    ELSE (IF i \in wfail THEN <<>> ELSE calls[i].bytes) \o Written(calls, i + 1, wfail)

\* csv_write(doc, file_path) where old is what the path holds, sink_opens says
\* whether it can be opened for writing and wfail are the write calls that fail:
\* [ret, file, h, crashed, open_failed, write_failed]
csv_write(d, old, sink_opens, wfail) ==
    LET calls == header_calls(d) \o rows_calls(d, 1)
        k == FirstFault(calls)
        made == IF k = 0 THEN calls ELSE SubSeq(calls, 1, k - 1)
        h0 == [opened |-> 1, closed |-> 0]
    IN  IF ~sink_opens
        THEN [ret |-> -1, file |-> old, h |-> [opened |-> 0, closed |-> 0],
              crashed |-> FALSE, open_failed |-> TRUE, write_failed |-> FALSE]
        ELSE [ret |-> 0,
              file |-> [exists |-> TRUE, bytes |-> Written(made, 1, wfail)],
              h |-> IF k = 0 THEN _platform_file_close(h0) ELSE h0,
              crashed |-> k # 0,
              open_failed |-> FALSE,
              write_failed |-> wfail \cap (1..Len(made)) # {}]

---------------------------------------------------------------------------
(* csv_free.  The pointers it hands to free(), in order; a slot of the     *)
(* header that was never assigned holds uninit (whatever the block held).  *)

header_frees(d, uninit) ==
    IF d.header # NULL
    THEN [i \in 1..d.num_cols |->
             IF i <= Len(d.header_items) THEN d.header_items[i].id ELSE uninit]
         \o <<d.header>>
    ELSE <<>>

row_frees(row) ==
    IF row.id # NULL
    THEN [j \in 1..row.num_fields |-> row.items[j].id] \o <<row.fields, row.id>>
    ELSE <<>>

RECURSIVE rows_frees(_, _)
rows_frees(d, i) ==
    IF d.rows = NULL THEN <<>>
    ELSE IF i > d.num_rows THEN <<d.rows>>
    ELSE row_frees(d.row_items[i]) \o rows_frees(d, i + 1)

free_calls(d, uninit) == header_frees(d, uninit) \o rows_frees(d, 1) \o <<d.id>>

\* free() of each pointer of ps in turn: f = [live, freed, crashed].  free(NULL)
\* does nothing; free() of anything but a live block is undefined: it is recorded,
\* and then the allocator either aborts the process or goes on.
RECURSIVE free_all(_, _, _)
free_all(ps, f, aborts) ==
    IF ps = <<>> \/ f.crashed THEN f
    ELSE LET p == Head(ps)
         IN  IF p = NULL THEN free_all(Tail(ps), f, aborts)
             ELSE free_all(Tail(ps),
                           [live |-> f.live \ {p},
                            freed |-> Append(f.freed, p),
                            crashed |-> p \notin f.live /\ aborts],
                           aborts)

\* a plausible slip: the check for an absent handle is missing
handle_absent_unchecked(p) == FALSE

\* if (!doc_ptr || !*doc_ptr) { return; }
handle_absent(p) == p = NULL

\* csv_free(&handle) where the handle holds p, m is the memory of the document
\* blocks (a released block still holds what it held), uninit is what an
\* unassigned slot reads as and aborts says what free() does with a bad pointer:
\* [handle, live, freed, crashed]
csv_free(p, m, lv, fr, uninit, aborts) ==
    IF handle_absent(p)
    THEN [handle |-> p, live |-> lv, freed |-> fr, crashed |-> FALSE]
    ELSE IF p \notin DOMAIN m
    THEN \* doc->header reads through NULL
         [handle |-> p, live |-> lv, freed |-> fr, crashed |-> TRUE]
    ELSE LET f == free_all(free_calls(m[p], uninit),
                           [live |-> lv, freed |-> fr, crashed |-> FALSE], aborts)
         IN  [handle |-> p, live |-> f.live, freed |-> f.freed, crashed |-> f.crashed]

---------------------------------------------------------------------------
(* The tokenizer on its own: one line in, one row out. *)

TokChars == {"a", "b", Comma, Quote, Space, Tab}

NoFile == [exists |-> FALSE, bytes |-> <<>>]
NoCall == [op |-> "none", ret |-> 0, opened |-> 0, closed |-> 0, alloc_failed |-> FALSE,
           open_failed |-> FALSE, read_failed |-> FALSE, write_failed |-> FALSE,
           crashed |-> FALSE]
NoMem == [i \in {} |-> 0]
\* the locals of csv_read before it has been entered
NoLocals == [reader |-> NewReader(<<>>), al |-> [calls |-> 0, live |-> {}, fail |-> {}],
             doc |-> NoDoc, row_capacity |-> 0, crashed |-> FALSE]

InitTok ==
    /\ pc = "tok_start"
    /\ tok_line \in SeqsUpTo(TokChars, MaxLineLen) \ {<<>>}
    /\ tok_row = NullRow
    /\ disk = [in |-> NoFile, out |-> NoFile]
    /\ has_header = FALSE
    /\ doc = NULL /\ doc2 = NULL
    /\ mem = NoMem
    /\ live = {} /\ freed = <<>> /\ nalloc = 0 /\ nfree = 0
    /\ last = NoCall
    /\ rd = NoLocals /\ line_log = <<>>

\* the caller hands tok_line to _parse_csv_line; every allocation succeeds
ParseLine ==
    /\ pc = "tok_start"
    /\ LET r == _parse_csv_line(tok_line, [calls |-> nalloc, live |-> live, fail |-> {}])
       IN  /\ tok_row' = r.row
           /\ live' = r.al.live
           /\ nalloc' = r.al.calls
    /\ pc' = "tok_done"
    /\ UNCHANGED <<disk, has_header, doc, doc2, mem, freed, last, nfree, tok_line, rd, line_log>>

NextTok == ParseLine

SpecTok == InitTok /\ [][NextTok]_vars

---------------------------------------------------------------------------
(* The calling program, as in the README examples: csv_read, then          *)
(* csv_write of the document, then csv_free(&doc), after which the caller  *)
(* may set doc = NULL itself; csv_free may be called again (a second       *)
(* explicit call, or the cleanup attribute running at the end of scope).   *)
(* The environment decides which allocation, read or write fails.          *)

FileChars == {"a", Comma, LF, NUL}

FilesOver(chars) == {NoFile} \cup {[exists |-> TRUE, bytes |-> b] : b \in SeqsUpTo(chars, MaxLen)}

\* the reads of a file without failure, as full buffers
FullReads(bytes) == ChunksOf(bytes, _CSV_INTERNAL_BUFFER_SIZE)

\* the outcomes the reads of a file may have: full buffers, one byte at a time,
\* or full buffers with one failed read among them
ReadPlans(bytes) ==
    {FullReads(bytes), ChunksOf(bytes, 1)}
        \cup {InsertAt(FullReads(bytes), k, ReadFails) : k \in 1..(Len(FullReads(bytes)) + 1)}

\* the allocation calls that fail: none, or one of the next MaxFailAt
FailChoices(calls) == {{}} \cup {{calls + k} : k \in 1..MaxFailAt}

WriteFailChoices == {{}} \cup {{k} : k \in 1..MaxWriteFailAt}

InitWith(files) ==
    /\ pc = "start"
    /\ disk \in [in : files, out : {NoFile}]
    /\ has_header \in BOOLEAN
    /\ doc = NULL /\ doc2 = NULL
    /\ mem = NoMem
    /\ live = {} /\ freed = <<>> /\ nalloc = 0 /\ nfree = 0
    /\ last = NoCall
    /\ tok_line = <<>> /\ tok_row = NullRow
    /\ rd = NoLocals /\ line_log = <<>>

Init == InitWith(FilesOver(FileChars))

\* what a csv_read call r leaves in last
ReadCall(r, fail) ==
    [op |-> "csv_read", ret |-> r.ret, opened |-> r.h.opened, closed |-> r.h.closed,
     alloc_failed |-> fail \cap (1..r.al.calls) # {},
     open_failed |-> r.open_failed, read_failed |-> r.read_failed,
     write_failed |-> FALSE, crashed |-> r.crashed]

\* doc = csv_read("in", has_header)
CsvRead ==
    /\ pc = "start"
    /\ \E plan \in ReadPlans(disk.in.bytes), fail \in FailChoices(nalloc) :
          /\ fail = {} \/ plan = FullReads(disk.in.bytes)
          /\ LET r == csv_read(disk.in, has_header, plan,
                               [calls |-> nalloc, live |-> live, fail |-> fail])
             IN  /\ doc' = r.ret
                 /\ mem' = IF r.ret # NULL THEN (r.ret :> r.doc) @@ mem ELSE mem
                 /\ live' = r.al.live
                 /\ nalloc' = r.al.calls
                 /\ last' = ReadCall(r, fail)
                 /\ pc' = IF r.crashed THEN "crashed" ELSE "read_done"
    /\ UNCHANGED <<disk, has_header, doc2, freed, nfree, tok_line, tok_row, rd, line_log>>

\* what a csv_write call r leaves in last
WriteCall(r) ==
    [op |-> "csv_write", ret |-> r.ret, opened |-> r.h.opened, closed |-> r.h.closed,
     alloc_failed |-> FALSE, open_failed |-> r.open_failed, read_failed |-> FALSE,
     write_failed |-> r.write_failed, crashed |-> r.crashed]

\* csv_write(doc, "out"), which the caller makes only with a document
CsvWrite ==
    /\ pc = "read_done"
    /\ doc # NULL
    /\ \E sink_opens \in BOOLEAN, wfail \in WriteFailChoices :
          LET r == csv_write(mem[doc], disk.out, sink_opens, wfail)
          IN  /\ disk' = [disk EXCEPT !.out = r.file]
              /\ last' = WriteCall(r)
              /\ pc' = IF r.crashed THEN "crashed" ELSE "written"
    /\ UNCHANGED <<has_header, doc, doc2, mem, live, freed, nalloc, nfree, tok_line, tok_row, rd, line_log>>

\* csv_free(&doc)
CsvFree ==
    /\ pc \in {"read_done", "written", "freed", "nulled"}
    /\ nfree < MaxFrees
    /\ \E uninit \in {NULL, WILD}, aborts \in BOOLEAN :
          LET r == csv_free(doc, mem, live, freed, uninit, aborts)
          IN  /\ doc' = r.handle
              /\ live' = r.live
              /\ freed' = r.freed
              /\ last' = [NoCall EXCEPT !.op = "csv_free", !.crashed = r.crashed]
              /\ pc' = IF r.crashed THEN "crashed" ELSE "freed"
    /\ nfree' = nfree + 1
    /\ UNCHANGED <<disk, has_header, doc2, mem, nalloc, tok_line, tok_row, rd, line_log>>

\* doc = NULL; by the caller after csv_free(&doc)
CallerNull ==
    /\ pc = "freed"
    /\ doc # NULL
    /\ doc' = NULL
    /\ pc' = "nulled"
    /\ UNCHANGED <<disk, has_header, doc2, mem, live, freed, nalloc, last, nfree,
                   tok_line, tok_row, rd, line_log>>

Next == CsvRead \/ CsvWrite \/ CsvFree \/ CallerNull

Spec == Init /\ [][Next]_vars

---------------------------------------------------------------------------
(* What the tokenizer is said to produce, stated without its scan. *)

Commas(line) == {i \in 1..Len(line) : line[i] = Comma}

\* position of the k-th comma of line
NthComma(line, k) ==
    CHOOSE i \in Commas(line) : Cardinality({j \in Commas(line) : j <= i}) = k

\* the k-th of the texts the commas of line separate, k in 1..(commas + 1)
Part(line, k) ==
    LET n == Cardinality(Commas(line))
        from == IF k = 1 THEN 1 ELSE NthComma(line, k - 1) + 1
        to == IF k = n + 1 THEN Len(line) ELSE NthComma(line, k) - 1
    IN  SubSeq(line, from, to)

IsBlank(c) == c = Space \/ c = Tab

\* s without its leading spaces and tabs
LTrim(s) ==
    LET lead == {i \in 0..Len(s) : \A j \in 1..i : IsBlank(s[j])}
        k == CHOOSE i \in lead : \A j \in lead : j <= i
    IN  SubSeq(s, k + 1, Len(s))

\* the line split at its commas, blanks after a comma trimmed
SplitTrim(line) ==
    [k \in 1..(Cardinality(Commas(line)) + 1) |->
        IF k = 1 THEN Part(line, 1) ELSE LTrim(Part(line, k))]

\* the same, without a last field that follows a comma and is empty once trimmed
SplitTrimNoTrailingEmpty(line) ==
    LET all == SplitTrim(line)
    IN  IF Len(all) > 1 /\ all[Len(all)] = <<>> THEN SubSeq(all, 1, Len(all) - 1)
        ELSE all

HasNo(line, c) == \A i \in 1..Len(line) : line[i] # c

\* the text from just after the quote at q up to the next quote, or to the end of line
QuotedBody(line, q) ==
    LET closing == {i \in (q + 1)..Len(line) : line[i] = Quote}
        stop == IF closing = {} THEN Len(line) + 1
                ELSE CHOOSE i \in closing : \A j \in closing : i <= j
    IN  SubSeq(line, q + 1, stop - 1)

\* C5 as stated: a line without quotes is tokenized into the texts its commas
\* separate (one more than it has commas), with the blanks after a comma trimmed
\* and the rest of each text kept.
C5_SplitAtEveryDelimiter ==
    (pc = "tok_done" /\ HasNo(tok_line, Quote))
        => Texts(tok_row.items) = SplitTrim(tok_line)

\* C5 amended: a line without quotes is tokenized into the texts its commas
\* separate, blanks after a comma trimmed and trailing blanks kept, except that
\* no field is produced for an empty (or all-blank) text after the last comma;
\* num_fields is the number of those texts.
C5_SplitNoTrailingEmpty ==
    (pc = "tok_done" /\ HasNo(tok_line, Quote))
        => /\ tok_row.id # NULL
           /\ Texts(tok_row.items) = SplitTrimNoTrailingEmpty(tok_line)
           /\ tok_row.num_fields = Len(SplitTrimNoTrailingEmpty(tok_line))

\* a quote-free line with an empty field, blanks trimmed after a comma and a
\* field ending in a blank has been tokenized
C5_Witness ==
    /\ pc = "tok_done"
    /\ tok_line = <<Comma, Space, "a", Space>>
    /\ Texts(tok_row.items) = << <<>>, <<"a", Space>> >>

\* where the second field of line starts when the first field is not quoted:
\* after the first comma and the blanks behind it
SecondStart(line) == 
    LET c == CHOOSE i \in Commas(line) : \A j \in Commas(line) : i <= j
        rest == SubSeq(line, c + 1, Len(line))
    IN  c + 1 + (Len(rest) - Len(LTrim(rest)))

\* C6: a field that starts with a quote has as its body the text up to the next
\* quote, or the rest of the line when there is none (first field of the line, and
\* second field behind an unquoted first one); the tokenizer returns a row either way.
C6_QuotedBody ==
    pc = "tok_done" =>
        /\ tok_row.id # NULL
        /\ tok_row.num_fields = Len(tok_row.items)
        /\ tok_row.num_fields >= 1
        /\ tok_line[1] = Quote => Texts(tok_row.items)[1] = QuotedBody(tok_line, 1)
        /\ (/\ tok_line[1] # Quote
            /\ Commas(tok_line) # {}
            /\ SecondStart(tok_line) <= Len(tok_line)
            /\ tok_line[SecondStart(tok_line)] = Quote)
           => /\ tok_row.num_fields >= 2
              /\ Texts(tok_row.items)[2] = QuotedBody(tok_line, SecondStart(tok_line))

\* a quoted field holding a comma and no closing quote has been tokenized into
\* one field: the rest of the line
C6_Witness ==
    /\ pc = "tok_done"
    /\ tok_line = <<Quote, "a", Comma, "b">>
    /\ Texts(tok_row.items) = << <<"a", Comma, "b">> >>

---------------------------------------------------------------------------
(* What a file holds, stated without the reader. *)

\* the lines of a file: the texts its newlines end, and a last text without
\* newline when it is not empty
RECURSIVE FileLines(_)
FileLines(bytes) ==
    IF bytes = <<>> THEN <<>>
    ELSE LET k == strchr_or_end(bytes, 1, LF)
         IN  <<SubSeq(bytes, 1, k - 1)>> \o FileLines(SubSeq(bytes, k + 1, Len(bytes)))

IsNonBlank(l) == l # <<>>

NonBlankLines(bytes) == SelectSeq(FileLines(bytes), IsNonBlank)

\* no NUL or carriage return in the file, and every line shorter than the
\* line buffer
PlainFile(bytes) ==
    /\ HasNo(bytes, NUL)
    /\ HasNo(bytes, CR)
    /\ \A i \in 1..Len(FileLines(bytes)) : Len(FileLines(bytes)[i]) < _CSV_INTERNAL_BUFFER_SIZE - 1

\* the field texts the tokenizer makes of a line
Tokens(l) == Texts(_parse_csv_line(l, [calls |-> 0, live |-> {}, fail |-> {}]).row.items)

\* the field texts of the rows of a document
RowTexts(d) == [i \in 1..Len(d.row_items) |-> Texts(d.row_items[i].items)]

\* csv_read has returned a document and nothing failed on the way
ReadSucceeded ==
    /\ pc = "read_done"
    /\ doc # NULL
    /\ ~last.alloc_failed /\ ~last.read_failed

\* C1: csv_read (without header) of a file makes one row of every non-blank
\* line of the whole file, whether or not blank lines come before it.
C1_BlankLinesSkipped ==
    (ReadSucceeded /\ ~has_header /\ PlainFile(disk.in.bytes))
        => /\ mem[doc].num_rows = Len(NonBlankLines(disk.in.bytes))
           /\ Len(mem[doc].row_items) = Len(NonBlankLines(disk.in.bytes))

\* C4: with has_header the first line becomes the header and sets num_cols, and
\* the rows are the tokenizations of the non-empty lines after it, in order.
C4_HeaderThenRows ==
    (/\ ReadSucceeded /\ has_header /\ PlainFile(disk.in.bytes)
     /\ FileLines(disk.in.bytes) # <<>>
     /\ Head(FileLines(disk.in.bytes)) # <<>>)
        => /\ mem[doc].header # NULL
           /\ Texts(mem[doc].header_items) = Tokens(Head(FileLines(disk.in.bytes)))
           /\ mem[doc].num_cols = Len(Tokens(Head(FileLines(disk.in.bytes))))
           /\ mem[doc].num_rows = Len(mem[doc].row_items)
           /\ RowTexts(mem[doc]) =
                  [i \in 1..Len(SelectSeq(Tail(FileLines(disk.in.bytes)), IsNonBlank)) |->
                      Tokens(SelectSeq(Tail(FileLines(disk.in.bytes)), IsNonBlank)[i])]

\* C7: when csv_read or csv_write returns, the handle it opened has been closed
\* exactly once, and at no point has it closed a handle it did not open or
\* closed one twice.
C7_HandleClosedOnce ==
    last.op \in {"csv_read", "csv_write"} =>
        /\ last.closed <= last.opened
        /\ last.open_failed => last.opened = 0
        /\ ~last.crashed => last.closed = last.opened

\* csv_read has returned NULL because the document could not be allocated,
\* with the source it had opened closed
C7_Witness ==
    /\ last.op = "csv_read" /\ last.alloc_failed /\ ~last.crashed
    /\ last.ret = NULL /\ last.opened = 1 /\ last.closed = 1

\* C8: a csv_read in which an allocation fails returns NULL with the source
\* closed and everything it allocated released, without reading or writing
\* through a NULL pointer.
C8_AllocFailureAborts ==
    (last.op = "csv_read" /\ last.alloc_failed)
        => /\ ~last.crashed
           /\ last.ret = NULL
           /\ last.closed = last.opened
           /\ live = {}

\* C9: csv_read returns NULL when the open or a read fails, and csv_write
\* returns -1 exactly when the open or a write fails (0 only when all was written).
C9_FailuresReturned ==
    /\ (last.op = "csv_read" /\ ~last.crashed /\ (last.open_failed \/ last.read_failed))
           => last.ret = NULL
    /\ (last.op = "csv_write" /\ ~last.crashed)
           => (last.ret = -1 <=> (last.open_failed \/ last.write_failed))

\* the blocks a document owns
OwnedFields(items) == {items[i].id : i \in 1..Len(items)}
OwnedByRow(row) == IF row.id = NULL THEN {} ELSE {row.id, row.fields} \cup OwnedFields(row.items)
Owned(d) ==
    ({d.id, d.rows, d.header} \cup OwnedFields(d.header_items)
        \cup UNION {OwnedByRow(d.row_items[i]) : i \in 1..Len(d.row_items)}) \ {NULL}

Pos(q, x) == CHOOSE i \in 1..Len(q) : q[i] = x
Released(q) == {q[i] : i \in 1..Len(q)}
NoneTwice(q) == \A i, j \in 1..Len(q) : q[i] = q[j] => i = j
Before(q, x, y) == Pos(q, x) < Pos(q, y)

\* every field released before its container, every container before the document
ReleaseOrder(q, d) ==
    /\ \A f \in OwnedFields(d.header_items) : Before(q, f, d.header)
    /\ \A i \in 1..Len(d.row_items) :
          d.row_items[i].id # NULL =>
              /\ \A f \in OwnedFields(d.row_items[i].items) :
                    Before(q, f, d.row_items[i].fields)
              /\ Before(q, d.row_items[i].fields, d.row_items[i].id)
              /\ Before(q, d.row_items[i].id, d.rows)
    /\ \A b \in Owned(d) \ {d.id} : Before(q, b, d.id)

\* C10: the first csv_free of a document csv_read returned releases exactly the
\* blocks the document owns, each once, fields before containers before the
\* document, and leaves nothing allocated.
C10_FreeReleasesAllOnce ==
    (last.op = "csv_free" /\ nfree = 1 /\ doc # NULL)
        => /\ ~last.crashed
           /\ Released(freed) = Owned(mem[doc])
           /\ NoneTwice(freed)
           /\ live = {}
           /\ ReleaseOrder(freed, mem[doc])

\* C2 as stated: after csv_free(&doc) the handle is NULL, and whatever number of
\* csv_free calls were made no block has been released twice.
C2_FreeClearsHandle ==
    pc = "freed" => (doc = NULL /\ NoneTwice(freed))

\* C2 amended: csv_free never changes the caller's handle, and when the handle
\* holds NULL it releases nothing and returns; so csv_free is a no-op from the
\* moment the caller has set the handle to NULL.
C2_FreeNoOpOnNullHandle ==
    [][(nfree' = nfree + 1) =>
          /\ doc' = doc
          /\ doc = NULL => (live' = live /\ freed' = freed /\ pc' = "freed")]_vars

\* a document was released, the caller set the handle to NULL, and csv_free was
\* called again
C2_Witness ==
    pc = "freed" /\ doc = NULL /\ nfree = 2 /\ freed # <<>> /\ last.op = "csv_free"

---------------------------------------------------------------------------
(* The round trip: a document is read, written to a second path and read  *)
(* back from there with the same has_header; nothing fails on the way.    *)

RoundTripChars == {"a", Comma, LF, Quote, Space, NUL}

InitRoundTrip == InitWith(FilesOver(RoundTripChars))

\* doc = csv_read("in", has_header)
ReadOk ==
    /\ pc = "start"
    /\ LET r == csv_read(disk.in, has_header, FullReads(disk.in.bytes),
                         [calls |-> nalloc, live |-> live, fail |-> {}])
       IN  /\ doc' = r.ret
           /\ mem' = IF r.ret # NULL THEN (r.ret :> r.doc) @@ mem ELSE mem
           /\ live' = r.al.live
           /\ nalloc' = r.al.calls
           /\ last' = ReadCall(r, {})
           /\ pc' = IF r.crashed THEN "crashed" ELSE "read_done"
    /\ UNCHANGED <<disk, has_header, doc2, freed, nfree, tok_line, tok_row, rd, line_log>>

\* csv_write(doc, "out")
WriteOk ==
    /\ pc = "read_done"
    /\ doc # NULL
    /\ LET r == csv_write(mem[doc], disk.out, TRUE, {})
       IN  /\ disk' = [disk EXCEPT !.out = r.file]
           /\ last' = WriteCall(r)
           /\ pc' = IF r.crashed THEN "crashed" ELSE "written"
    /\ UNCHANGED <<has_header, doc, doc2, mem, live, freed, nalloc, nfree, tok_line, tok_row, rd, line_log>>

\* doc2 = csv_read("out", has_header)
ReadBack ==
    /\ pc = "written"
    /\ LET r == csv_read(disk.out, has_header, FullReads(disk.out.bytes),
                         [calls |-> nalloc, live |-> live, fail |-> {}])
       IN  /\ doc2' = r.ret
           /\ mem' = IF r.ret # NULL THEN (r.ret :> r.doc) @@ mem ELSE mem
           /\ live' = r.al.live
           /\ nalloc' = r.al.calls
           /\ last' = ReadCall(r, {})
           /\ pc' = IF r.crashed THEN "crashed" ELSE "reread"
    /\ UNCHANGED <<disk, has_header, doc, freed, nfree, tok_line, tok_row, rd, line_log>>

NextRoundTrip == ReadOk \/ WriteOk \/ ReadBack

SpecRoundTrip == InitRoundTrip /\ [][NextRoundTrip]_vars

\* the records of a document: its header (when it has one) and its rows
Records(d) ==
    (IF d.header # NULL THEN <<Texts(d.header_items)>> ELSE <<>>) \o RowTexts(d)

\* the same header (or none in both) and the same rows of the same field texts
SameContent(d, e) ==
    /\ (d.header = NULL) = (e.header = NULL)
    /\ Texts(d.header_items) = Texts(e.header_items)
    /\ RowTexts(d) = RowTexts(e)

\* no field of the document holds a comma, a quote or a line terminator
FieldsPlain(d) ==
    \A i \in 1..Len(Records(d)) : \A j \in 1..Len(Records(d)[i]) :
        /\ HasNo(Records(d)[i][j], Comma)
        /\ HasNo(Records(d)[i][j], Quote)
        /\ HasNo(Records(d)[i][j], LF)
        /\ HasNo(Records(d)[i][j], CR)

\* no field but the first of a record starts with a space or a tab
NoLeadingBlank(d) ==
    \A i \in 1..Len(Records(d)) : \A j \in 2..Len(Records(d)[i]) :
        Records(d)[i][j] = <<>> \/ ~IsBlank(Records(d)[i][j][1])

\* every record has a field and its last field is not empty
NoTrailingEmpty(d) ==
    \A i \in 1..Len(Records(d)) :
        Records(d)[i] # <<>> /\ Records(d)[i][Len(Records(d)[i])] # <<>>

\* a document read with has_header has its header unless it has no rows
HeaderAsAsked(d) == (has_header /\ d.num_rows > 0) => d.header # NULL

\* bytes of the line csv_write makes of a record
RECURSIVE LineLen(_)
LineLen(rec) ==
    IF rec = <<>> THEN 0
    ELSE Len(Head(rec)) + (IF Len(rec) > 1 THEN 1 ELSE 0) + LineLen(Tail(rec))

\* every line csv_write makes of the document fits the reader's line buffer
LinesFit(d) == \A i \in 1..Len(Records(d)) : LineLen(Records(d)[i]) < _CSV_INTERNAL_BUFFER_SIZE - 1

\* C3 as stated: a document (read from a file of text) without comma, quote or
\* newline in its fields, empty fields and fields with leading blanks included,
\* is read back from the file csv_write made of it with the same header and rows.
C3_RoundTrip ==
    (pc = "reread" /\ doc # NULL /\ HasNo(disk.in.bytes, NUL) /\ FieldsPlain(mem[doc]))
        => /\ doc2 # NULL
           /\ SameContent(mem[doc], mem[doc2])

\* C3 amended: the round trip gives back the same header and rows for a document
\* whose fields hold no comma, quote or newline, where moreover no field after
\* the first of its record starts with a space or tab, no record ends with an
\* empty field, the header asked for is there (or there are no rows), and every
\* written line is shorter than the reader's line buffer.
C3_RoundTripAmended ==
    (/\ pc = "reread" /\ doc # NULL
     /\ FieldsPlain(mem[doc]) /\ NoLeadingBlank(mem[doc]) /\ NoTrailingEmpty(mem[doc])
     /\ HeaderAsAsked(mem[doc]) /\ LinesFit(mem[doc]))
        => /\ doc2 # NULL
           /\ SameContent(mem[doc], mem[doc2])

\* a document with a header, an empty first field and a first field starting
\* with a space has made the round trip
C3_Witness ==
    /\ pc = "reread" /\ has_header
    /\ doc # NULL /\ doc2 # NULL /\ doc # doc2
    /\ Records(mem[doc]) = << <<<<>>, <<"a">>>>, <<<<Space>>>> >>
    /\ SameContent(mem[doc], mem[doc2])

---------------------------------------------------------------------------
(* csv_read taken one line at a time: the entry up to the allocation of    *)
(* the row container, the header line, one step for every pass of the      *)
(* "Read data rows" loop, and the return.  Every read and every allocation *)
(* succeeds.  rd holds the locals, line_log what each _read_line returned. *)

InitSteps == InitWith(FilesOver(FileChars))

\* what a _read_line call rl leaves in line_log
LineOf(rl) == [line |-> rl.line, ret |-> rl.ret]

\* csv_read from its entry to `doc->rows = malloc(...)`
EnterRead ==
    /\ pc = "start"
    /\ IF ~disk.in.exists
       THEN /\ doc' = NULL
            /\ last' = ReadCall([NoRead EXCEPT !.open_failed = TRUE], {})
            /\ pc' = "read_done"
            /\ UNCHANGED <<rd, live, nalloc>>
       ELSE /\ rd' = [reader |-> NewReader(FullReads(disk.in.bytes)),
                      al |-> malloc_al(malloc_al([calls |-> nalloc, live |-> live, fail |-> {}])),
                      doc |-> NewDoc(nalloc + 1, nalloc + 2),
                      row_capacity |-> _CSV_INITIAL_ROW_CAPACITY,
                      crashed |-> FALSE]
            /\ live' = rd'.al.live
            /\ nalloc' = rd'.al.calls
            /\ pc' = "header"
            /\ UNCHANGED <<doc, last>>
    /\ UNCHANGED <<disk, has_header, doc2, mem, freed, nfree, tok_line, tok_row, line_log>>

\* "Read header"
HeaderStep ==
    /\ pc = "header"
    /\ rd' = read_header(rd, has_header)
    /\ line_log' = IF has_header
                   THEN Append(line_log, LineOf(_read_line(rd.reader, _CSV_INTERNAL_BUFFER_SIZE)))
                   ELSE line_log
    /\ live' = rd'.al.live
    /\ nalloc' = rd'.al.calls
    /\ pc' = IF rd'.crashed THEN "crashed" ELSE "rows"
    /\ UNCHANGED <<disk, has_header, doc, doc2, mem, freed, last, nfree, tok_line, tok_row>>

\* one pass of "Read data rows": the line is skipped or stored as a row
RowStep ==
    /\ pc = "rows"
    /\ \E rl \in {_read_line(rd.reader, _CSV_INTERNAL_BUFFER_SIZE)} :
          /\ rl.ret > 0
          /\ rd' = IF skip_line(rl.line) THEN [rd EXCEPT !.reader = rl.reader]
                   ELSE read_row([rd EXCEPT !.reader = rl.reader], CStr(rl.line))
          /\ line_log' = Append(line_log, LineOf(rl))
    /\ live' = rd'.al.live
    /\ nalloc' = rd'.al.calls
    /\ pc' = IF rd'.crashed THEN "crashed" ELSE "rows"
    /\ UNCHANGED <<disk, has_header, doc, doc2, mem, freed, last, nfree, tok_line, tok_row>>

\* the loop ends, the file is closed and the document returned
ReturnDoc ==
    /\ pc = "rows"
    /\ \E rl \in {_read_line(rd.reader, _CSV_INTERNAL_BUFFER_SIZE)} :
          /\ ~(rl.ret > 0)
          /\ rd' = [rd EXCEPT !.reader = rl.reader]
          /\ line_log' = Append(line_log, LineOf(rl))
    /\ doc' = rd.doc.id
    /\ mem' = (rd.doc.id :> rd.doc) @@ mem
    /\ last' = ReadCall(read_result(rd'), {})
    /\ pc' = "read_done"
    /\ UNCHANGED <<disk, has_header, doc2, live, freed, nalloc, nfree, tok_line, tok_row>>

NextSteps == EnterRead \/ HeaderStep \/ RowStep \/ ReturnDoc

SpecSteps == InitSteps /\ [][NextSteps]_vars

\* the lines the "Read data rows" loop stored as rows, in order
IsStored(l) == l.ret > 0 /\ ~skip_line(l.line)
StoredLines == SelectSeq(IF has_header /\ line_log # <<>> THEN Tail(line_log) ELSE line_log,
                         IsStored)

\* C11: once the header step is over, num_cols is the header's field count
\* when a header was read and otherwise the first row's field count (0 while
\* there is no row), no step changes it once it is set, and every row has
\* exactly the fields its own line tokenizes to.
C11_NumColsAssignedOnce ==
    /\ [](pc \in {"rows", "read_done"} /\ rd.doc.id # NULL =>
            /\ rd.doc.header # NULL => rd.doc.num_cols = Len(rd.doc.header_items)
            /\ rd.doc.header = NULL =>
                  rd.doc.num_cols = IF rd.doc.row_items = <<>> THEN 0
                                    ELSE rd.doc.row_items[1].num_fields
            /\ Len(rd.doc.row_items) = Len(StoredLines)
            /\ \A i \in 1..Len(rd.doc.row_items) :
                  /\ rd.doc.row_items[i].num_fields = Len(rd.doc.row_items[i].items)
                  /\ Texts(rd.doc.row_items[i].items) = Tokens(CStr(StoredLines[i].line)))
    /\ [][rd.doc.num_cols # 0 => rd'.doc.num_cols = rd.doc.num_cols]_vars

---------------------------------------------------------------------------
(* The line reader on its own: _read_line is called on one reader for as   *)
(* long as it returns more than 0, as the loops of csv_read call it, on a  *)
(* file that the byte source hands over in reads of any sizes.             *)

LineChars == {"a", LF, CR}

\* every way the reads can cut the bytes: each read returns at least one byte
\* and at most a buffer of them
RECURSIVE Splits(_)
Splits(bytes) ==
    IF bytes = <<>> THEN {<<>>}
    ELSE UNION {{<<[n |-> k, data |-> SubSeq(bytes, 1, k)]>> \o rest :
                    rest \in Splits(SubSeq(bytes, k + 1, Len(bytes)))} :
                k \in 1..Min(Len(bytes), _CSV_INTERNAL_BUFFER_SIZE)}

InitLines ==
    /\ pc = "lines"
    /\ disk \in [in : {[exists |-> TRUE, bytes |-> b] : b \in SeqsUpTo(LineChars, MaxFileLen)},
                 out : {NoFile}]
    /\ \E plan \in Splits(disk.in.bytes) : rd = [NoLocals EXCEPT !.reader = NewReader(plan)]
    /\ line_log = <<>>
    /\ has_header = FALSE
    /\ doc = NULL /\ doc2 = NULL
    /\ mem = NoMem
    /\ live = {} /\ freed = <<>> /\ nalloc = 0 /\ nfree = 0
    /\ last = NoCall
    /\ tok_line = <<>> /\ tok_row = NullRow

\* while (_read_line(&reader, line, sizeof(line)) > 0)
ReadLineCall ==
    /\ pc = "lines"
    /\ \E rl \in {_read_line(rd.reader, _CSV_INTERNAL_BUFFER_SIZE)} :
          /\ rd' = [rd EXCEPT !.reader = rl.reader]
          /\ line_log' = Append(line_log, LineOf(rl))
          /\ pc' = IF rl.ret > 0 THEN "lines" ELSE "lines_done"
    /\ UNCHANGED <<disk, has_header, doc, doc2, mem, live, freed, nalloc, last, nfree,
                   tok_line, tok_row>>

NextLines == ReadLineCall

SpecLines == InitLines /\ [][NextLines]_vars

\* a line without the carriage return that ends it
StripCR(l) == IF l # <<>> /\ l[Len(l)] = CR THEN SubSeq(l, 1, Len(l) - 1) ELSE l

\* the logical lines of a file
LogicalLines(bytes) == [i \in 1..Len(FileLines(bytes)) |-> StripCR(FileLines(bytes)[i])]

\* every line of the file is shorter than what the line buffer can hold
LinesShort(bytes) ==
    \A i \in 1..Len(FileLines(bytes)) : Len(FileLines(bytes)[i]) < _CSV_INTERNAL_BUFFER_SIZE - 1

\* the reader has handed out every byte of the file
NoBytesRemain(reader) == reader.src = <<>> /\ reader.current_pos >= reader.bytes_in_buffer

\* C12: on a file of short lines, whatever the sizes of the reads, call i of
\* _read_line yields logical line i (the bytes before its newline, without a
\* trailing carriage return) and returns its length, and the calls end (a
\* return of 0) only when no byte of the file remains.
C12_LinesInOrder ==
    LinesShort(disk.in.bytes) =>
        /\ \A i \in 1..Len(line_log) :
              i <= Len(LogicalLines(disk.in.bytes)) =>
                  /\ line_log[i].line = LogicalLines(disk.in.bytes)[i]
                  /\ line_log[i].ret = Len(line_log[i].line)
        /\ pc = "lines_done" =>
              /\ line_log[Len(line_log)].ret = 0
              /\ Len(line_log) >= Len(LogicalLines(disk.in.bytes))
              /\ NoBytesRemain(rd.reader)

\* a line cut to what the line buffer holds before its terminator
Truncated(l) == SubSeq(l, 1, Min(Len(l), _CSV_INTERNAL_BUFFER_SIZE - 1))

\* a file without carriage returns and without empty lines
NoBlankLine(bytes) ==
    /\ HasNo(bytes, CR)
    /\ \A i \in 1..Len(FileLines(bytes)) : FileLines(bytes)[i] # <<>>

\* C13: no call of _read_line puts more than max_len - 1 bytes before the
\* terminator, and (on a file without empty lines) call i yields the first
\* max_len - 1 bytes of line i of the file, however long that line is: what is
\* left of a long line is not yielded as further lines, and the calls end only
\* after the last line, when no byte of the file remains.
C13_LongLineTruncated ==
    /\ \A i \in 1..Len(line_log) : Len(line_log[i].line) <= _CSV_INTERNAL_BUFFER_SIZE - 1
    /\ NoBlankLine(disk.in.bytes) =>
          /\ \A i \in 1..Len(line_log) :
                i <= Len(FileLines(disk.in.bytes)) =>
                    /\ line_log[i].line = Truncated(FileLines(disk.in.bytes)[i])
                    /\ line_log[i].ret = Len(line_log[i].line)
          /\ pc = "lines_done" =>
                /\ Len(line_log) = Len(FileLines(disk.in.bytes)) + 1
                /\ NoBytesRemain(rd.reader)

=============================================================================
